---- MODULE Spec2Model ----
(***************************************************************************)
(* Counter.sol, Token.sol and TokenVault as a state machine.               *)
(*                                                                         *)
(* The committed contract storage is x, events, totalSupply, balanceOf and *)
(* deposits.                                                               *)
(* A call runs statement by statement on a working copy (snap) of the      *)
(* storage; pc is the source line the call is about to execute.  A failed  *)
(* require or a checked-arithmetic panic reverts: the working copy is      *)
(* dropped.  Leaving the function commits the working copy.                *)
(***************************************************************************)
EXTENDS Integers, Sequences, FiniteSets, TLC

\* Stand-in for type(uint256).max = 2^256 - 1: the arithmetic is modelled at a
\* reduced width, every comparison against the width is against MaxUint.
MaxUint == 3

\* The longest event log the model explores.
MaxLog == 3

Uint == 0..MaxUint

\* The amounts incBy is called with: zero, the smallest, one in between, the largest.
ByArgs == {0, 1, 2, MaxUint}

\* The signers of the token fixture.
Address == {"owner", "addr1", "addr2"}

\* msg.sender of the deployment.
Deployer == "owner"

\* address(this) of the deployed TokenVault.
Vault == "vault"

\* The addresses that hold tokens once the vault is deployed.
Holder == Address \cup {Vault}

\* The constructor argument of Token: the largest supply a uint256 holds.
InitialSupply == MaxUint

VARIABLES
    x,          \* Counter.x
    events,     \* committed Increment events, each its `by` field, in order
    totalSupply,\* Token.totalSupply
    balanceOf,  \* Token.balanceOf
    deposits,   \* TokenVault.deposits
    pc,         \* "idle", or the line the running call executes next
    tx,         \* the running call: method, msg.sender and arguments
    snap,       \* the working storage of the running call
    last,       \* the outcome of the call that finished last, with its pre-state
    incLog      \* amounts of the inc/incBy calls that succeeded, in commit order

vars == <<x, events, totalSupply, balanceOf, deposits, pc, tx, snap, last, incLog>>

Store == [x |-> x, events |-> events, balanceOf |-> balanceOf, deposits |-> deposits]

NoTx == [method |-> "none", sender |-> "none", to |-> "none", arg |-> 0]

NoCall == [method |-> "none", sender |-> "none", to |-> "none", arg |-> 0,
           status |-> "none", reason |-> "",
           pre |-> [x |-> 0, events |-> <<>>, balanceOf |-> [a \in Address |-> 0],
                    deposits |-> [a \in Address |-> 0]]]

PanicOverflow == "Panic(0x11)"

-----------------------------------------------------------------------------
(* Statements *)

\* x++ under Solidity 0.8 checked arithmetic.
IncrementWrapping(v) == [ok |-> TRUE, val |-> (v + 1) % (MaxUint + 1)]
Increment(v) ==
    IF v + 1 > MaxUint THEN [ok |-> FALSE, val |-> v]
                       ELSE [ok |-> TRUE, val |-> v + 1]

\* emit Increment(1)
IncEmitSequenceNumber(log) == Append(log, Len(log) + 1)
IncEmit(log) == Append(log, 1)

\* require(by > 0, ...)
IncByRequireNonNegative(by) == by >= 0
IncByRequire(by) == by > 0

\* x += by under checked arithmetic.
AddAssignWrapping(v, by) == [ok |-> TRUE, val |-> (v + by) % (MaxUint + 1)]
AddAssign(v, by) ==
    IF v + by > MaxUint THEN [ok |-> FALSE, val |-> v]
                        ELSE [ok |-> TRUE, val |-> v + by]

\* emit Increment(by)
IncByEmitOne(log, by) == Append(log, 1)
IncByEmit(log, by) == Append(log, by)

\* require(x > 0, ...)
DecRequireNone(v) == TRUE
DecRequire(v) == v > 0

\* x-- under checked arithmetic.
DecrementTwice(v) ==
    IF v - 2 < 0 THEN [ok |-> FALSE, val |-> v] ELSE [ok |-> TRUE, val |-> v - 2]
Decrement(v) ==
    IF v - 1 < 0 THEN [ok |-> FALSE, val |-> v] ELSE [ok |-> TRUE, val |-> v - 1]

\* x = _x: the counter value after the assignment, given the value v before it.
SetNumberAdd(v, _x) == (v + _x) % (MaxUint + 1)
SetNumberAssign(v, _x) == _x

\* require(balanceOf[msg.sender] >= amount, ...)
TransferRequireNone(bal, sender, amount) == TRUE
TransferRequire(bal, sender, amount) == bal[sender] >= amount

\* balanceOf[msg.sender] -= amount under checked arithmetic.
DebitNothing(bal, sender, amount) == [ok |-> TRUE, val |-> bal]
Debit(bal, sender, amount) ==
    IF bal[sender] - amount < 0
    THEN [ok |-> FALSE, val |-> bal]
    ELSE [ok |-> TRUE, val |-> [bal EXCEPT ![sender] = @ - amount]]

\* balanceOf[to] += amount under checked arithmetic.
CreditNothing(bal, to, amount) == [ok |-> TRUE, val |-> bal]
Credit(bal, to, amount) ==
    IF bal[to] + amount > MaxUint
    THEN [ok |-> FALSE, val |-> bal]
    ELSE [ok |-> TRUE, val |-> [bal EXCEPT ![to] = @ + amount]]

\* Token.transfer run to its end inside another call: the balances it leaves,
\* or the reason it reverts with.
TokenTransfer(bal, sender, to, amount) ==
    IF ~TransferRequire(bal, sender, amount)
    THEN [ok |-> FALSE, reason |-> "Insufficient balance", val |-> bal]
    ELSE LET d == Debit(bal, sender, amount) IN
         IF ~d.ok THEN [ok |-> FALSE, reason |-> PanicOverflow, val |-> bal]
         ELSE LET c == Credit(d.val, to, amount) IN
              IF ~c.ok THEN [ok |-> FALSE, reason |-> PanicOverflow, val |-> bal]
              ELSE [ok |-> TRUE, reason |-> "", val |-> c.val]

\* require(token.balanceOf(msg.sender) >= amount, ...)
DepositRequire(bal, sender, amount) == bal[sender] >= amount

\* token.transfer(address(this), amount): the vault is the caller of the
\* token, so inside Token.transfer msg.sender is the vault, not the depositor.
DepositTransfer(bal, sender, amount) == TokenTransfer(bal, Vault, Vault, amount)

\* deposits[msg.sender] += amount under checked arithmetic.
DepositCredit(dep, sender, amount) ==
    IF dep[sender] + amount > MaxUint
    THEN [ok |-> FALSE, val |-> dep]
    ELSE [ok |-> TRUE, val |-> [dep EXCEPT ![sender] = @ + amount]]

\* Leaving a function: the storage after the call is the working storage.
CommitWithoutEvents(store, working) == [working EXCEPT !.events = store.events]
Commit(store, working) == working

\* The public getters x() and balanceOf(address): a view call reads the
\* committed storage, whatever call is running.
ReadX == x

ReadBalanceOfWorking(a) == snap.balanceOf[a]
ReadBalanceOf(a) == balanceOf[a]

-----------------------------------------------------------------------------
(* Calls *)

Init ==
    /\ x = 0
    /\ events = <<>>
    /\ totalSupply = InitialSupply
    /\ balanceOf = [a \in Address |-> IF a = Deployer THEN InitialSupply ELSE 0]
    /\ deposits = [a \in Address |-> 0]
    /\ pc = "idle"
    /\ tx = NoTx
    /\ snap = [x |-> x, events |-> events, balanceOf |-> balanceOf,
               deposits |-> deposits]
    /\ last = NoCall
    /\ incLog = <<>>

\* A transaction enters `method` at line `line` on a fresh working copy.
Enter(method, line, sender, to, arg) ==
    /\ pc' = line
    /\ tx' = [method |-> method, sender |-> sender, to |-> to, arg |-> arg]
    /\ snap' = Store
    /\ last' = NoCall
    /\ UNCHANGED <<x, events, totalSupply, balanceOf, deposits, incLog>>

\* The running call goes on to line `line` with working storage `s`.
Goto(line, s) ==
    /\ pc' = line
    /\ snap' = s
    /\ UNCHANGED <<x, events, totalSupply, balanceOf, deposits, tx, last, incLog>>

\* The running call reverts: its working copy is dropped.
Revert(reason) ==
    /\ pc' = "idle"
    /\ tx' = NoTx
    /\ snap' = Store
    /\ last' = [method |-> tx.method, sender |-> tx.sender, to |-> tx.to,
                arg |-> tx.arg, status |-> "revert", reason |-> reason,
                pre |-> Store]
    /\ UNCHANGED <<x, events, totalSupply, balanceOf, deposits, incLog>>

\* The running call leaves its function with working storage `s`.
Return(s) ==
    LET c == Commit(Store, s) IN
    /\ pc' = "idle"
    /\ tx' = NoTx
    /\ x' = c.x
    /\ events' = c.events
    /\ balanceOf' = c.balanceOf
    /\ deposits' = c.deposits
    /\ snap' = c
    /\ last' = [method |-> tx.method, sender |-> tx.sender, to |-> tx.to,
                arg |-> tx.arg, status |-> "success", reason |-> "",
                pre |-> Store]
    /\ incLog' = IF tx.method = "inc" THEN Append(incLog, 1)
                 ELSE IF tx.method = "incBy" THEN Append(incLog, tx.arg)
                 ELSE incLog
    /\ UNCHANGED totalSupply

(* Counter.inc *)
inc ==
    /\ pc = "idle"
    /\ Len(events) < MaxLog
    /\ Enter("inc", "inc_13", Deployer, "none", 0)

inc_13 ==
    /\ pc = "inc_13"
    /\ LET r == Increment(snap.x) IN
        IF r.ok THEN Goto("inc_14", [snap EXCEPT !.x = r.val])
                ELSE Revert(PanicOverflow)

inc_14 ==
    /\ pc = "inc_14"
    /\ Return([snap EXCEPT !.events = IncEmit(@)])

(* Counter.incBy *)
incBy(by) ==
    /\ pc = "idle"
    /\ Len(events) < MaxLog
    /\ Enter("incBy", "incBy_18", Deployer, "none", by)

incBy_18 ==
    /\ pc = "incBy_18"
    /\ IF IncByRequire(tx.arg) THEN Goto("incBy_19", snap)
                               ELSE Revert("incBy: increment should be positive")

incBy_19 ==
    /\ pc = "incBy_19"
    /\ LET r == AddAssign(snap.x, tx.arg) IN
        IF r.ok THEN Goto("incBy_20", [snap EXCEPT !.x = r.val])
                ELSE Revert(PanicOverflow)

incBy_20 ==
    /\ pc = "incBy_20"
    /\ Return([snap EXCEPT !.events = IncByEmit(@, tx.arg)])

(* Counter.dec *)
dec ==
    /\ pc = "idle"
    /\ Enter("dec", "dec_24", Deployer, "none", 0)

dec_24 ==
    /\ pc = "dec_24"
    /\ IF DecRequire(snap.x) THEN Goto("dec_25", snap)
                             ELSE Revert("dec: counter is zero")

dec_25 ==
    /\ pc = "dec_25"
    /\ LET r == Decrement(snap.x) IN
        IF r.ok THEN Return([snap EXCEPT !.x = r.val])
                ELSE Revert(PanicOverflow)

(* Counter.setNumber *)
setNumber(_x) ==
    /\ pc = "idle"
    /\ Enter("setNumber", "setNumber_29", Deployer, "none", _x)

setNumber_29 ==
    /\ pc = "setNumber_29"
    /\ Return([snap EXCEPT !.x = SetNumberAssign(@, tx.arg)])

(* Token.transfer *)
transfer(sender, to, amount) ==
    /\ pc = "idle"
    /\ Enter("transfer", "transfer_17", sender, to, amount)

transfer_17 ==
    /\ pc = "transfer_17"
    /\ IF TransferRequire(snap.balanceOf, tx.sender, tx.arg)
        THEN Goto("transfer_18", snap)
        ELSE Revert("Insufficient balance")

transfer_18 ==
    /\ pc = "transfer_18"
    /\ LET r == Debit(snap.balanceOf, tx.sender, tx.arg) IN
        IF r.ok THEN Goto("transfer_19", [snap EXCEPT !.balanceOf = r.val])
                ELSE Revert(PanicOverflow)

transfer_19 ==
    /\ pc = "transfer_19"
    /\ LET r == Credit(snap.balanceOf, tx.to, tx.arg) IN
        IF r.ok THEN Goto("transfer_20", [snap EXCEPT !.balanceOf = r.val])
                ELSE Revert(PanicOverflow)

transfer_20 ==
    /\ pc = "transfer_20"
    /\ Return(snap)

Next ==
    \/ inc
    \/ inc_13
    \/ inc_14
    \/ \E by \in ByArgs : incBy(by)
    \/ incBy_18
    \/ incBy_19
    \/ incBy_20
    \/ dec
    \/ dec_24
    \/ dec_25
    \/ \E _x \in Uint : setNumber(_x)
    \/ setNumber_29
    \/ \E sender \in Address, to \in Address, amount \in Uint :
        transfer(sender, to, amount)
    \/ transfer_17
    \/ transfer_18
    \/ transfer_19
    \/ transfer_20

Spec == Init /\ [][Next]_vars

-----------------------------------------------------------------------------
(* The token system: Token and TokenVault deployed together *)

InitVault ==
    /\ x = 0
    /\ events = <<>>
    /\ totalSupply = InitialSupply
    /\ balanceOf = [a \in Holder |-> IF a = Deployer THEN InitialSupply ELSE 0]
    /\ deposits = [a \in Address |-> 0]
    /\ pc = "idle"
    /\ tx = NoTx
    /\ snap = [x |-> x, events |-> events, balanceOf |-> balanceOf,
               deposits |-> deposits]
    /\ last = NoCall
    /\ incLog = <<>>

(* TokenVault.deposit *)
deposit(sender, amount) ==
    /\ pc = "idle"
    /\ Enter("deposit", "deposit_15", sender, "none", amount)

deposit_15 ==
    /\ pc = "deposit_15"
    /\ IF DepositRequire(snap.balanceOf, tx.sender, tx.arg)
        THEN Goto("deposit_19", snap)
        ELSE Revert("Insufficient token balance")

deposit_19 ==
    /\ pc = "deposit_19"
    /\ LET r == DepositTransfer(snap.balanceOf, tx.sender, tx.arg) IN
        IF r.ok THEN Goto("deposit_20", [snap EXCEPT !.balanceOf = r.val])
                ELSE Revert(r.reason)

deposit_20 ==
    /\ pc = "deposit_20"
    /\ LET r == DepositCredit(snap.deposits, tx.sender, tx.arg) IN
        IF r.ok THEN Return([snap EXCEPT !.deposits = r.val])
                ELSE Revert(PanicOverflow)

NextVault ==
    \/ \E sender \in Address, to \in Holder, amount \in Uint :
        transfer(sender, to, amount)
    \/ transfer_17
    \/ transfer_18
    \/ transfer_19
    \/ transfer_20
    \/ \E sender \in Address, amount \in Uint : deposit(sender, amount)
    \/ deposit_15
    \/ deposit_19
    \/ deposit_20

SpecVault == InitVault /\ [][NextVault]_vars

-----------------------------------------------------------------------------
(* Properties *)

\* The call that finished last was a call of `method`.
Finished(method) == last.status # "none" /\ last.method = method

\* The storage a successful call `c` leaves, given the storage `pre` it started on.
Expected(pre, c) ==
    CASE c.method = "inc" ->
            [pre EXCEPT !.x = @ + 1, !.events = Append(@, 1)]
      [] c.method = "incBy" ->
            [pre EXCEPT !.x = @ + c.arg, !.events = Append(@, c.arg)]
      [] c.method = "dec" ->
            [pre EXCEPT !.x = @ - 1]
      [] c.method = "setNumber" ->
            [pre EXCEPT !.x = c.arg]
      [] c.method = "transfer" ->
            [pre EXCEPT !.balanceOf = [a \in Address |->
                pre.balanceOf[a] - (IF a = c.sender THEN c.arg ELSE 0)
                                 + (IF a = c.to THEN c.arg ELSE 0)]]

InitialStore ==
    [x |-> 0, events |-> <<>>,
     balanceOf |-> [a \in Address |-> IF a = Deployer THEN InitialSupply ELSE 0],
     deposits |-> [a \in Address |-> 0]]

\* C1: every call of inc, incBy, dec, setNumber or transfer ends in exactly one
\* outcome: success with the whole effect of the method applied to the storage
\* and the event log, or failure with a reason and the storage and the event
\* log as they were before the call. The storage never changes without an
\* outcome, and no working copy outlives its call.
C1_ExactlyOneOutcome ==
    /\ last.status \in {"none", "success", "revert"}
    /\ last.status = "success" =>
        /\ last.reason = ""
        /\ Store = Expected(last.pre, last)
    /\ last.status = "revert" =>
        /\ last.reason # ""
        /\ Store = last.pre
    /\ (last.status = "none" /\ pc = "idle") => Store = InitialStore
    /\ pc = "idle" => snap = Store

C1_Witness ==
    /\ Finished("transfer") /\ last.status = "success"
    /\ last.sender # last.to /\ last.arg > 0
    /\ x > 0 /\ events # <<>>

\* C2 as stated: a transfer from a balance b >= amount succeeds and leaves the
\* sender with b - amount and `to` with old_to + amount, whoever `to` is.
C2_TransferAnyRecipient ==
    (Finished("transfer") /\ last.pre.balanceOf[last.sender] >= last.arg) =>
        /\ last.status = "success"
        /\ balanceOf[last.sender] = last.pre.balanceOf[last.sender] - last.arg
        /\ balanceOf[last.to] = last.pre.balanceOf[last.to] + last.arg

\* C2 amended: a transfer from a balance b >= amount (amount == b included)
\* succeeds; when `to` is not the sender it leaves the sender with b - amount
\* and `to` with old_to + amount, and when `to` is the sender it leaves the
\* sender's balance at b.
C2_TransferSufficient ==
    (Finished("transfer") /\ last.pre.balanceOf[last.sender] >= last.arg) =>
        /\ last.status = "success"
        /\ IF last.to # last.sender
            THEN /\ balanceOf[last.sender] = last.pre.balanceOf[last.sender] - last.arg
                 /\ balanceOf[last.to] = last.pre.balanceOf[last.to] + last.arg
            ELSE balanceOf[last.sender] = last.pre.balanceOf[last.sender]

C2_Witness ==
    /\ Finished("transfer") /\ last.status = "success"
    /\ last.to # last.sender
    /\ last.arg > 0
    /\ last.arg = last.pre.balanceOf[last.sender]
    /\ last.pre.balanceOf[last.to] > 0

\* C3: a transfer from a balance below amount fails with "Insufficient
\* balance" and every balance is what it was before the call.
C3_TransferInsufficient ==
    (Finished("transfer") /\ last.pre.balanceOf[last.sender] < last.arg) =>
        /\ last.status = "revert"
        /\ last.reason = "Insufficient balance"
        /\ balanceOf = last.pre.balanceOf

C3_Witness ==
    /\ Finished("transfer") /\ last.status = "revert"
    /\ last.pre.balanceOf[last.sender] > 0
    /\ last.pre.balanceOf[last.sender] < last.arg
    /\ last.to # last.sender

\* C4: incBy(a) with a > 0 from counter value v sets the counter to v + a and
\* appends exactly one Increment(a) when v + a <= MaxUint; otherwise it fails
\* with the overflow panic, the counter stays v and no event is appended.
C4_IncByPositive ==
    (Finished("incBy") /\ last.arg > 0) =>
        IF last.pre.x + last.arg <= MaxUint
        THEN /\ last.status = "success"
             /\ x = last.pre.x + last.arg
             /\ events = Append(last.pre.events, last.arg)
        ELSE /\ last.status = "revert"
             /\ last.reason = PanicOverflow
             /\ x = last.pre.x
             /\ events = last.pre.events

C4_Witness ==
    /\ Finished("incBy") /\ last.status = "revert"
    /\ last.arg > 1 /\ last.arg < MaxUint
    /\ last.pre.x < MaxUint
    /\ last.pre.x + last.arg > MaxUint

\* C5: incBy(0) fails with "incBy: increment should be positive" from every
\* counter value; the counter is unchanged and no event is appended.
C5_IncByZero ==
    (Finished("incBy") /\ last.arg = 0) =>
        /\ last.status = "revert"
        /\ last.reason = "incBy: increment should be positive"
        /\ x = last.pre.x
        /\ events = last.pre.events

C5_Witness ==
    /\ Finished("incBy") /\ last.arg = 0 /\ last.status = "revert"
    /\ last.pre.x > 0

\* C6: dec() at counter value 0 fails with "dec: counter is zero" and leaves
\* the counter at 0: it does not wrap to MaxUint.
C6_DecAtZero ==
    (Finished("dec") /\ last.pre.x = 0) =>
        /\ last.status = "revert"
        /\ last.reason = "dec: counter is zero"
        /\ x = 0

C6_Witness ==
    /\ Finished("dec") /\ last.pre.x = 0 /\ last.status = "revert"
    /\ events # <<>>

\* C7: dec() at counter value v > 0 succeeds, sets the counter to v - 1 and
\* appends no event.
C7_DecPositive ==
    (Finished("dec") /\ last.pre.x > 0) =>
        /\ last.status = "success"
        /\ x = last.pre.x - 1
        /\ events = last.pre.events

C7_Witness ==
    /\ Finished("dec") /\ last.status = "success"
    /\ last.pre.x = 1 /\ x = 0
    /\ events # <<>>

\* C8: inc() (and incBy(1)) at counter value MaxUint fails with the overflow
\* panic, the counter stays MaxUint and no event is appended; at any value
\* v < MaxUint, inc() sets the counter to v + 1 and appends exactly one
\* Increment(1).
C8_IncAtBound ==
    /\ Finished("inc") =>
        IF last.pre.x = MaxUint
        THEN /\ last.status = "revert"
             /\ last.reason = PanicOverflow
             /\ x = MaxUint
             /\ events = last.pre.events
        ELSE /\ last.status = "success"
             /\ x = last.pre.x + 1
             /\ events = Append(last.pre.events, 1)
    /\ (Finished("incBy") /\ last.arg = 1 /\ last.pre.x = MaxUint) =>
        /\ last.status = "revert"
        /\ last.reason = PanicOverflow
        /\ x = MaxUint
        /\ events = last.pre.events

\* The counter can only have reached MaxUint with an empty log by setNumber.
C8_Witness ==
    /\ Finished("inc") /\ last.status = "revert"
    /\ last.pre.x = MaxUint
    /\ events = <<>>

\* C9: the Increment events are exactly the amounts of the inc/incBy calls that
\* succeeded, one per call, in commit order; a call that failed adds none.
C9_EventsAreCommittedIncs == events = incLog

C9_Witness ==
    /\ events = <<1, 2>>
    /\ Finished("incBy") /\ last.status = "revert" /\ last.arg > 0

\* What a reader gets from the getters.
ReadView == [x |-> ReadX, balanceOf |-> [a \in Address |-> ReadBalanceOf(a)]]

RECURSIVE SumOver(_, _)
SumOver(f, S) ==
    IF S = {} THEN 0
    ELSE LET a == CHOOSE b \in S : TRUE IN f[a] + SumOver(f, S \ {a})

Failure(px, pbal, reason) ==
    [status |-> "revert", reason |-> reason, x |-> px, balanceOf |-> pbal,
     emitted |-> <<>>]

Success(px, pbal, emitted) ==
    [status |-> "success", reason |-> "", x |-> px, balanceOf |-> pbal,
     emitted |-> emitted]

Outcome(px, pbal, c) ==
    CASE c.method = "inc" ->
            IF px = MaxUint THEN Failure(px, pbal, PanicOverflow)
            ELSE Success(px + 1, pbal, <<1>>)
      [] c.method = "incBy" ->
            IF c.arg = 0
            THEN Failure(px, pbal, "incBy: increment should be positive")
            ELSE IF px + c.arg > MaxUint THEN Failure(px, pbal, PanicOverflow)
            ELSE Success(px + c.arg, pbal, <<c.arg>>)
      [] c.method = "dec" ->
            IF px = 0 THEN Failure(px, pbal, "dec: counter is zero")
            ELSE Success(px - 1, pbal, <<>>)
      [] c.method = "setNumber" -> Success(c.arg, pbal, <<>>)
      [] c.method = "transfer" ->
            IF pbal[c.sender] < c.arg
            THEN Failure(px, pbal, "Insufficient balance")
            ELSE Success(px,
                    [a \in DOMAIN pbal |->
                        pbal[a] - (IF a = c.sender THEN c.arg ELSE 0)
                                + (IF a = c.to THEN c.arg ELSE 0)],
                    <<>>)

\* What the call that finished last did: its outcome, the storage it left and
\* the events it added to the log.
Observed ==
    [status |-> last.status, reason |-> last.reason, x |-> x,
     balanceOf |-> balanceOf,
     emitted |-> SubSeq(events, Len(last.pre.events) + 1, Len(events))]

\* C11: execution is deterministic: the outcome of a call, the storage it
\* leaves and the events it emits are one function of the storage the call
\* starts on and of its sender, method and arguments, and of nothing else
\* (not of the event log, nor of the calls made before); so the same calls
\* from the same initial storage give the same final storage and log.
C11_OutcomeIsFunctionOfStateAndCall ==
    /\ last.status # "none" =>
        /\ Observed = Outcome(last.pre.x, last.pre.balanceOf, last)
        /\ SubSeq(events, 1, Len(last.pre.events)) = last.pre.events
    /\ (last.status = "none" /\ pc = "idle") => Store = InitialStore

\* The same inc() on the same counter value a second time, on a longer log.
C11_Witness ==
    /\ Finished("inc") /\ last.status = "success"
    /\ last.pre.x = 0
    /\ last.pre.events = <<1>>
    /\ events = <<1, 1>>

\* C12: setNumber(x) never fails, whatever x in 0..MaxUint and whatever the
\* counter value: it sets the counter to exactly x, appends no event and
\* leaves the event log, the balances and the total supply as they were.
C12_SetNumberFrame ==
    Finished("setNumber") =>
        /\ last.status = "success"
        /\ x = last.arg
        /\ events = last.pre.events
        /\ balanceOf = last.pre.balanceOf
        /\ totalSupply = InitialSupply

\* setNumber lowers a counter that has a log and sits beside moved balances.
C12_Witness ==
    /\ Finished("setNumber") /\ last.status = "success"
    /\ last.pre.x = MaxUint /\ last.arg = 1 /\ x = 1
    /\ events # <<>>
    /\ balanceOf[Deployer] < InitialSupply

\* C13: token supply is conserved: after deployment the deployer holds the
\* initial supply and every other address 0; after any calls of transfer,
\* successful or failed, self-transfers included, totalSupply is the initial
\* supply and the balances add up to it; so the credit balanceOf[to] += amount
\* never overflows: it is within the width when it runs, and no transfer
\* fails for any reason but an insufficient balance.
C13_SupplyConserved ==
    /\ totalSupply = InitialSupply
    /\ SumOver(balanceOf, DOMAIN balanceOf) = totalSupply
    /\ (last.status = "none" /\ pc = "idle") =>
        \A a \in DOMAIN balanceOf :
            balanceOf[a] = IF a = Deployer THEN InitialSupply ELSE 0
    /\ pc = "transfer_19" => snap.balanceOf[tx.to] + tx.arg <= MaxUint
    /\ (Finished("transfer") /\ last.status = "revert") =>
        last.reason = "Insufficient balance"

\* A holder other than the deployer has transferred tokens to itself.
C13_Witness ==
    /\ Finished("transfer") /\ last.status = "success"
    /\ last.sender = last.to
    /\ last.sender # Deployer
    /\ last.arg > 0
    /\ \E a \in DOMAIN balanceOf : a # last.sender /\ balanceOf[a] > 0

\* C14: vault deposits are backed by tokens: every successful deposit(amount)
\* by a caller lowers the caller's token balance by amount and raises the
\* vault's token balance by amount, so the deposits of all callers together
\* never exceed the vault's token balance.
C14_DepositsBacked ==
    /\ (Finished("deposit") /\ last.status = "success") =>
        /\ balanceOf[last.sender] = last.pre.balanceOf[last.sender] - last.arg
        /\ balanceOf[Vault] = last.pre.balanceOf[Vault] + last.arg
    /\ SumOver(deposits, DOMAIN deposits) <= balanceOf[Vault]

====
